---- MODULE Spec2Model ----
(***************************************************************************)
(* Push-notification fan-out and appointment status workflow of            *)
(* backend-fcm/main.py.  The document store (Firestore) and the push       *)
(* provider (FCM) are external: every call to them is one atomic step of   *)
(* the request that makes it, and requests served by different workers     *)
(* interleave at those calls.                                              *)
(***************************************************************************)
EXTENDS Integers, Sequences, FiniteSets, TLC

\* ------------------------------------------------------------------ bounds
\* Longest stored token list, and the last server timestamp handed out.
MaxLen == 2
MaxClock == 2

\* ------------------------------------------------------------- value sets
Workers == {1, 2}
\* "p1" is the patient and "d1" the doctor of the appointments.
UserIds == {"p1", "d1"}
AppointmentIds == {"a1", "a2"}
\* An id no appointment document has.
UnknownAppointmentId == "a0"

\* Python's None, as the value of an optional field.
None == "<None>"
\* A list entry that is not a str (isinstance(token, str) is false).
NonStr == "<int>"
Tokens == {"t1", "t2"}
Entries == Tokens \cup {"", NonStr}

isinstance_str(x) == x # NonStr /\ x # None
\* Truth value of an optional string: None and "" are falsy.
truthy(x) == x # None /\ x # ""

\* The fcmTokens field of a user document; kind "nodoc" stands for a
\* document that does not exist, "missing" for a document without the field.
Field(kind, s, l) == [kind |-> kind, s |-> s, l |-> l]
NoDoc == Field("nodoc", "", <<>>)
MissingField == Field("missing", "", <<>>)
StrField(s) == Field("str", s, <<>>)
ListField(l) == Field("list", "", l)

SeqsUpTo(S, n) == UNION {[1..k -> S] : k \in 0..n}

AppointmentStatus ==
    {"pending", "confirmed", "scheduled", "completed",
     "declined_doctor", "cancelled_patient", "declined"}

\* Statuses the requests of the model ask for.
RequestedStatuses == {"confirmed", "completed", "pending"}

\* What messaging.send does: returns, or raises UnregisteredError, another
\* FirebaseError (InvalidArgumentError is one), or any other exception.
Outcomes == {"delivered", "unregistered", "invalid_argument", "firebase_error", "exception"}
\* Message ids messaging.send returns for a delivered message.
MessageIds == {"m1", "m2"}
\* str(e) of an exception raised by a store or provider call.
ErrorTexts == {"e1", "e2"}

\* users_at_start records the users collection as it was at start-up.
VARIABLES firebase_initialized, db, users, users_at_start, appointments, clock, frame

vars == <<firebase_initialized, db, users, users_at_start, appointments, clock, frame>>

\* ------------------------------------------------------ pure helper code
\* Variant: the comprehension tests only "if token", not isinstance.
RECURSIVE list_filter_truthy(_)
list_filter_truthy(tokens) ==
    IF tokens = <<>> THEN <<>>
    ELSE IF truthy(Head(tokens))
         THEN <<Head(tokens)>> \o list_filter_truthy(Tail(tokens))
         ELSE list_filter_truthy(Tail(tokens))

\* Variant: "if isinstance(token, str)" only, so empty strings pass.
RECURSIVE list_filter_str(_)
list_filter_str(tokens) ==
    IF tokens = <<>> THEN <<>>
    ELSE IF isinstance_str(Head(tokens))
         THEN <<Head(tokens)>> \o list_filter_str(Tail(tokens))
         ELSE list_filter_str(Tail(tokens))

\* [token for token in tokens if token and isinstance(token, str)]
RECURSIVE list_filter_valid(_)
list_filter_valid(tokens) ==
    IF tokens = <<>> THEN <<>>
    ELSE IF truthy(Head(tokens)) /\ isinstance_str(Head(tokens))
         THEN <<Head(tokens)>> \o list_filter_valid(Tail(tokens))
         ELSE list_filter_valid(Tail(tokens))

\* get_user_fcm_tokens: the token list returned for the document read,
\* [] when the client is absent or the read raised.
get_user_fcm_tokens(user_doc, raised) ==
    IF ~db \/ raised THEN <<>>
    ELSE IF user_doc.kind = "list" THEN list_filter_valid(user_doc.l)
    ELSE IF user_doc.kind = "str" /\ truthy(user_doc.s) THEN <<user_doc.s>>
    ELSE <<>>

elem_in(x, tokens) == \E k \in 1..Len(tokens) : tokens[k] = x

\* Variant: tokens.pop() in place of tokens.remove(x).
list_pop(tokens, x) ==
    IF tokens = <<>> THEN <<>> ELSE SubSeq(tokens, 1, Len(tokens) - 1)

\* Variant: x is appended (list.append) where it should be removed.
list_append(tokens, x) == Append(tokens, x)

\* Variant: the first entry equal to x is blanked, not dropped.
RECURSIVE list_blank(_, _)
list_blank(tokens, x) ==
    IF tokens = <<>> THEN <<>>
    ELSE IF Head(tokens) = x THEN <<"">> \o Tail(tokens)
    ELSE <<Head(tokens)>> \o list_blank(Tail(tokens), x)

\* Variant: every entry equal to x is dropped.
RECURSIVE list_remove_all(_, _)
list_remove_all(tokens, x) ==
    IF tokens = <<>> THEN <<>>
    ELSE IF Head(tokens) = x THEN list_remove_all(Tail(tokens), x)
    ELSE <<Head(tokens)>> \o list_remove_all(Tail(tokens), x)

\* list.remove(x): drops the first entry equal to x.
RECURSIVE list_remove(_, _)
list_remove(tokens, x) ==
    IF tokens = <<>> THEN <<>>
    ELSE IF Head(tokens) = x THEN Tail(tokens)
    ELSE <<Head(tokens)>> \o list_remove(Tail(tokens), x)

\* Variant: the list branch compares the list with the token ("tokens ==
\* invalid_token") and so never finds it.
remove_decision_str_only(user_doc, invalid_token) ==
    IF user_doc.kind = "str" /\ user_doc.s = invalid_token
    THEN [write |-> TRUE, value |-> MissingField]
    ELSE [write |-> FALSE, value |-> user_doc]

\* Variant: the single-string field is written back, not deleted.
remove_decision_keep_field(user_doc, invalid_token) ==
    IF user_doc.kind = "nodoc" THEN [write |-> FALSE, value |-> user_doc]
    ELSE IF user_doc.kind = "list" THEN
        IF elem_in(invalid_token, user_doc.l)
        THEN [write |-> TRUE, value |-> ListField(list_remove(user_doc.l, invalid_token))]
        ELSE [write |-> FALSE, value |-> user_doc]
    ELSE IF user_doc.kind = "str" /\ user_doc.s = invalid_token
        THEN [write |-> TRUE, value |-> user_doc]
    ELSE [write |-> FALSE, value |-> user_doc]

\* Variant: the list is written back whether or not the token was in it.
remove_decision_always_write(user_doc, invalid_token) ==
    IF user_doc.kind = "nodoc" THEN [write |-> FALSE, value |-> user_doc]
    ELSE IF user_doc.kind = "list"
        THEN [write |-> TRUE, value |-> ListField(list_remove(user_doc.l, invalid_token))]
    ELSE IF user_doc.kind = "str" /\ user_doc.s = invalid_token
        THEN [write |-> TRUE, value |-> MissingField]
    ELSE [write |-> FALSE, value |-> user_doc]

\* remove_unregistered_token up to its write: whether it writes, and what.
remove_decision(user_doc, invalid_token) ==
    IF user_doc.kind = "nodoc" THEN [write |-> FALSE, value |-> user_doc]
    ELSE IF user_doc.kind = "list" THEN
        IF elem_in(invalid_token, user_doc.l)
        THEN [write |-> TRUE, value |-> ListField(list_remove(user_doc.l, invalid_token))]
        ELSE [write |-> FALSE, value |-> user_doc]
    ELSE IF user_doc.kind = "str" /\ user_doc.s = invalid_token
        THEN [write |-> TRUE, value |-> MissingField]
    ELSE [write |-> FALSE, value |-> user_doc]

\* Variant: "elif failure_count > success_count".
final_status_majority(success_count, failure_count) ==
    IF success_count = 0 /\ failure_count > 0 THEN "failure"
    ELSE IF failure_count > success_count THEN "partial_success"
    ELSE "success"

\* The overall status of a fan-out.
final_status(success_count, failure_count) ==
    IF success_count = 0 /\ failure_count > 0 THEN "failure"
    ELSE IF failure_count > 0 THEN "partial_success"
    ELSE "success"

\* The dict a fan-out returns.
FanoutResult(st, sc, fc, tt, tr) ==
    [status |-> st, success_count |-> sc, failure_count |-> fc,
     tokens_targeted |-> tt, tokens_removed |-> tr]
NoTargetResult == FanoutResult("no_target", 0, 0, 0, 0)
NoFanout == FanoutResult("none", 0, 0, 0, 0)

\* An HTTP response: code, error detail, body status, embedded fan-out result.
Response(code, detail, st, nr) ==
    [code |-> code, detail |-> detail, status |-> st, notification_result |-> nr]
NoResponse == Response(0, "", "", NoFanout)

\* The two status strings of the body of the health check.
HealthBody(init_status, db_status) ==
    [firebase_admin_status |-> init_status, firestore_status |-> db_status]
NoHealth == HealthBody("", "")

\* Variant: 'cancellationReason' is always in update_data, None included.
apply_update_reset_reason(appointment, new_status, cancellation_reason, ts) ==
    [appointment EXCEPT
        !.status = new_status,
        !.statusLastUpdatedAt = ts,
        !.cancellationReason = cancellation_reason]

\* Variant: update_data without the 'status' key.
apply_update_no_status(appointment, new_status, cancellation_reason, ts) ==
    [appointment EXCEPT
        !.statusLastUpdatedAt = ts,
        !.cancellationReason =
            IF truthy(cancellation_reason) THEN cancellation_reason ELSE @]

\* appointment_ref.update(update_data)
apply_update(appointment, new_status, cancellation_reason, ts) ==
    [appointment EXCEPT
        !.status = new_status,
        !.statusLastUpdatedAt = ts,
        !.cancellationReason =
            IF truthy(cancellation_reason) THEN cancellation_reason ELSE @]

Appointment(ex, st, pid, did, reason, ts) ==
    [exists |-> ex, status |-> st, patientId |-> pid, doctorId |-> did,
     cancellationReason |-> reason, statusLastUpdatedAt |-> ts]
NoAppointment == Appointment(FALSE, "", None, None, None, 0)

\* ------------------------------------------------------- request frames
\* The locals of one request being served, and the history of the call.
IdleFrame ==
    [pc |-> "idle", op |-> "none",
     user_id |-> "", user_type |-> "", high_priority |-> FALSE,
     appointment_id |-> "", new_status |-> "", doctor_id |-> None,
     cancellation_reason |-> None,
     tokens |-> <<>>, i |-> 0,
     success_count |-> 0, failure_count |-> 0, tokens_removed |-> 0,
     to_write |-> MissingField,
     result |-> NoResponse, response |-> "", message_id |-> "", error |-> "",
     health |-> NoHealth,
     seen |-> NoDoc, resolved |-> FALSE, sends |-> <<>>, prunes |-> <<>>,
     before |-> NoAppointment, committed |-> FALSE, writes |-> 0]

\* ------------------------------------------------------------- environment
\* What the outside does: the requests that arrive (recipients of
\* /notify-doctor-appointment, payloads of /update-appointment-status), the
\* answers of the provider, whether a store call may raise, and the tokens
\* of /send-notification-direct with the message ids the provider returns,
\* and the texts of the exceptions raised.
UpdatePayloads ==
    [appointment_id : AppointmentIds \cup {UnknownAppointmentId},
     new_status : RequestedStatuses,
     doctor_id : {None, "d1", "p1"},
     cancellation_reason : {None, "", "busy"}]

Env ==
    [recipients |-> UserIds, payloads |-> UpdatePayloads,
     outcomes |-> Outcomes, raises |-> BOOLEAN,
     targets |-> Tokens, message_ids |-> MessageIds, errors |-> ErrorTexts]

\* The environment of the runs over every stored token field: one kind of
\* update request, every answer of the provider and of the store.
FanoutEnv ==
    [recipients |-> UserIds,
     payloads |-> [appointment_id : {"a1"}, new_status : {"confirmed"},
                   doctor_id : {None}, cancellation_reason : {None}],
     outcomes |-> Outcomes, raises |-> BOOLEAN,
     targets |-> {"t1"}, message_ids |-> {"m1"}, errors |-> {"e1"}]

\* The environment of the runs with overlapping requests: fewer kinds of
\* request, a store that answers.
OverlapEnv ==
    [recipients |-> {"p1"},
     payloads |-> [appointment_id : {"a1"}, new_status : {"confirmed", "completed"},
                   doctor_id : {None}, cancellation_reason : {None}],
     outcomes |-> {"delivered", "unregistered", "firebase_error"},
     raises |-> {FALSE},
     targets |-> {"t1"}, message_ids |-> {"m1"}, errors |-> {"e1"}]

\* ------------------------------------------------------------ initial state
InitFields ==
    {NoDoc, MissingField, StrField("t1"), StrField("")}
        \cup {ListField(l) : l \in SeqsUpTo(Entries, MaxLen)}

\* Token fields of the runs over every kind of request.
WorkflowFields ==
    {NoDoc, MissingField, StrField("t1"), ListField(<<>>),
     ListField(<<"t1", "t2">>)}

\* Token fields of the runs with overlapping requests.
OverlapFields == {ListField(<<"t1", "t2">>), ListField(<<"t1", "t1">>), StrField("t1")}

InitialAppointments ==
    [a \in AppointmentIds \cup {UnknownAppointmentId} |->
        IF a = "a1" THEN Appointment(TRUE, "pending", "p1", "d1", "old", 0)
        ELSE IF a = "a2" THEN Appointment(TRUE, "scheduled", None, "d1", None, 0)
        ELSE NoAppointment]

InitWith(fields) ==
    /\ firebase_initialized \in BOOLEAN
    /\ db = firebase_initialized
    /\ \E f \in fields :
        users = [u \in UserIds |-> IF u = "p1" THEN f ELSE ListField(<<"t1">>)]
    /\ users_at_start = users
    /\ appointments = InitialAppointments
    /\ clock = 0
    /\ frame = [w \in Workers |-> IdleFrame]

Init == InitWith(InitFields)

\* ------------------------------------------------- send_notifications_to_user
\* Variant: the endpoint turns a failed notification into an error response.
finish_fanout_escalate(f, fr) ==
    [f EXCEPT !.pc = "done",
              !.result = IF f.op = "update_appointment_status"
                         THEN IF fr.status = "failure"
                              THEN Response(500, "Failed to update appointment status", "", fr)
                              ELSE Response(200, "", "success", fr)
                         ELSE Response(200, "", fr.status, fr)]

\* Return of send_notifications_to_user to the endpoint that called it.
finish_fanout(f, fr) ==
    [f EXCEPT !.pc = "done",
              !.result = IF f.op = "update_appointment_status"
                         THEN Response(200, "", "success", fr)
                         ELSE Response(200, "", fr.status, fr)]

\* Variant: the exception of the document read is not caught and the
\* endpoint answers 500.
resolve_raises(f, raised) ==
    LET user_doc == users[f.user_id]
        tokens == get_user_fcm_tokens(user_doc, raised)
        g == [f EXCEPT !.tokens = tokens, !.resolved = TRUE,
                       !.seen = IF raised THEN NoDoc ELSE user_doc]
    IN IF raised
       THEN [g EXCEPT !.pc = "done",
                      !.result = Response(500, "Error fetching FCM tokens", "", NoFanout)]
       ELSE IF tokens = <<>> THEN finish_fanout(g, NoTargetResult)
       ELSE [g EXCEPT !.pc = "send", !.i = 1]

\* Variant: a recipient without a record is answered with 404.
resolve_no_record_fails(f, raised) ==
    LET user_doc == users[f.user_id]
        tokens == get_user_fcm_tokens(user_doc, raised)
        g == [f EXCEPT !.tokens = tokens, !.resolved = TRUE,
                       !.seen = IF raised THEN NoDoc ELSE user_doc]
    IN IF ~raised /\ user_doc.kind = "nodoc"
       THEN [g EXCEPT !.pc = "done",
                      !.result = Response(404, "User not found", "", NoFanout)]
       ELSE IF tokens = <<>> THEN finish_fanout(g, NoTargetResult)
       ELSE [g EXCEPT !.pc = "send", !.i = 1]

\* Variant: a recipient without tokens is answered with 404.
resolve_not_found(f, raised) ==
    LET user_doc == users[f.user_id]
        tokens == get_user_fcm_tokens(user_doc, raised)
        g == [f EXCEPT !.tokens = tokens, !.resolved = TRUE,
                       !.seen = IF raised THEN NoDoc ELSE user_doc]
    IN IF tokens = <<>>
       THEN [g EXCEPT !.pc = "done",
                      !.result = Response(404, "No FCM tokens available", "", NoFanout)]
       ELSE [g EXCEPT !.pc = "send", !.i = 1]

\* Token lookup of the fan-out (one document read) and the no-target return.
resolve(f, raised) ==
    LET user_doc == users[f.user_id]
        tokens == get_user_fcm_tokens(user_doc, raised)
        g == [f EXCEPT !.tokens = tokens, !.resolved = TRUE,
                       !.seen = IF raised THEN NoDoc ELSE user_doc]
    IN IF tokens = <<>> THEN finish_fanout(g, NoTargetResult)
       ELSE [g EXCEPT !.pc = "send", !.i = 1]

\* Variant: the loop stops at the first failed send.
next_token_break(f) ==
    IF f.i < Len(f.tokens) /\ f.failure_count = 0
    THEN [f EXCEPT !.pc = "send", !.i = @ + 1]
    ELSE finish_fanout(f,
            FanoutResult(final_status(f.success_count, f.failure_count),
                         f.success_count, f.failure_count,
                         Len(f.tokens), f.tokens_removed))

\* End of one iteration of the send loop: next token, or the summary.
next_token(f) ==
    IF f.i < Len(f.tokens)
    THEN [f EXCEPT !.pc = "send", !.i = @ + 1]
    ELSE finish_fanout(f,
            FanoutResult(final_status(f.success_count, f.failure_count),
                         f.success_count, f.failure_count,
                         Len(f.tokens), f.tokens_removed))

\* A request goes to the first worker that is free.
Free(w) ==
    /\ frame[w].pc = "idle"
    /\ \A v \in Workers : v < w => frame[v].pc # "idle"

\* POST /notify-doctor-appointment: the initialisation check of
\* send_notifications_to_user and its token lookup.
notify_doctor_appointment(w, env) ==
    /\ Free(w)
    /\ \E doctor_id \in env.recipients, raised \in env.raises :
        LET f == [IdleFrame EXCEPT !.op = "notify_doctor_appointment",
                                   !.user_id = doctor_id, !.user_type = "doctor",
                                   !.high_priority = FALSE]
        IN frame' = [frame EXCEPT ![w] =
                IF ~firebase_initialized
                THEN [f EXCEPT !.pc = "done",
                               !.result = Response(503, "Firebase services not initialized", "", NoFanout)]
                ELSE resolve(f, raised)]
    /\ UNCHANGED <<users_at_start, firebase_initialized, db, users, appointments, clock>>

\* Variant: the hints are attached whatever high_priority is.
platform_config_always(high_priority) ==
    [android |-> "high", apns |-> "10"]

\* android_config and apns_config of the messages of a fan-out: set only
\* "if high_priority".
platform_config(high_priority) ==
    IF high_priority THEN [android |-> "high", apns |-> "10"]
    ELSE [android |-> None, apns |-> None]
NoConfig == [android |-> None, apns |-> None]

\* A call messaging.send(message) with what it did: the token and the
\* platform configurations of the message, and the provider's answer.
Sent(token, outcome, config) ==
    [token |-> token, outcome |-> outcome,
     android |-> config.android, apns |-> config.apns]

\* Variant: a send that raised something other than a FirebaseError is not
\* counted.
Send_uncounted(w, env) ==
    /\ frame[w].pc = "send"
    /\ \E outcome \in env.outcomes :
        LET f == frame[w]
            token == f.tokens[f.i]
            g == [f EXCEPT !.sends = Append(@,
                    Sent(token, outcome, platform_config(f.high_priority)))]
        IN frame' = [frame EXCEPT ![w] =
                IF outcome = "delivered"
                THEN next_token([g EXCEPT !.success_count = @ + 1])
                ELSE IF outcome = "unregistered"
                THEN [g EXCEPT !.failure_count = @ + 1, !.pc = "prune_read"]
                ELSE IF outcome = "exception" THEN next_token(g)
                ELSE next_token([g EXCEPT !.failure_count = @ + 1])]
    /\ UNCHANGED <<users_at_start, firebase_initialized, db, users, appointments, clock>>

\* GET /: the handler returns its body, with the default code 200, whatever
\* the state of the two globals.
read_root(w) ==
    /\ Free(w)
    /\ frame' = [frame EXCEPT ![w] =
            [IdleFrame EXCEPT
                !.op = "read_root", !.pc = "done",
                !.result = Response(200, "", "Server running", NoFanout),
                !.health = HealthBody(
                    IF firebase_initialized THEN "Initialized" ELSE "Initialization FAILED",
                    IF db THEN "Connected" ELSE "Not Connected")]]
    /\ UNCHANGED <<users_at_start, firebase_initialized, db, users, appointments, clock>>

\* Variant: "except exceptions.FirebaseError" comes first and catches the
\* unregistered and the invalid-argument errors.
direct_response_firebase_first(outcome, response, e) ==
    IF outcome = "delivered"
        THEN [code |-> 200, status |-> "success", message_id |-> response, detail |-> ""]
    ELSE IF outcome = "exception"
        THEN [code |-> 500, status |-> "", message_id |-> "",
              detail |-> "An unexpected server error occurred: " \o e]
    ELSE [code |-> 500, status |-> "", message_id |-> "",
          detail |-> "Firebase error sending notification: " \o e]

\* The try/except of send_fcm_notification_direct: the body returned for
\* the provider's response, or the HTTPException of the first matching clause.
direct_response(outcome, response, e) ==
    IF outcome = "delivered"
        THEN [code |-> 200, status |-> "success", message_id |-> response, detail |-> ""]
    ELSE IF outcome = "unregistered"
        THEN [code |-> 404, status |-> "", message_id |-> "",
              detail |-> "Device token is unregistered or invalid: " \o e]
    ELSE IF outcome = "invalid_argument"
        THEN [code |-> 400, status |-> "", message_id |-> "",
              detail |-> "Invalid argument provided for FCM message: " \o e]
    ELSE IF outcome = "firebase_error"
        THEN [code |-> 500, status |-> "", message_id |-> "",
              detail |-> "Firebase error sending notification: " \o e]
    ELSE [code |-> 500, status |-> "", message_id |-> "",
          detail |-> "An unexpected server error occurred: " \o e]

\* POST /send-notification-direct: one messaging.send to the token of the
\* payload; the store is not touched.
send_fcm_notification_direct(w, env) ==
    /\ Free(w)
    /\ \E token \in env.targets, outcome \in env.outcomes,
          response \in env.message_ids, e \in env.errors :
        LET f == [IdleFrame EXCEPT !.op = "send_fcm_notification_direct",
                                   !.tokens = <<token>>, !.pc = "done"]
            r == direct_response(outcome, response, e)
        IN frame' = [frame EXCEPT ![w] =
                IF ~firebase_initialized
                THEN [f EXCEPT !.result =
                        Response(503, "Firebase Admin SDK not initialized", "", NoFanout)]
                ELSE [f EXCEPT
                        !.sends = <<Sent(token, outcome, NoConfig)>>,
                        !.response = IF outcome = "delivered" THEN response ELSE "",
                        !.error = IF outcome = "delivered" THEN "" ELSE e,
                        !.result = Response(r.code, r.detail, r.status, NoFanout),
                        !.message_id = r.message_id]]
    /\ UNCHANGED <<users_at_start, firebase_initialized, db, users, appointments, clock>>

\* One iteration of the send loop up to the provider's answer.
Send(w, env) ==
    /\ frame[w].pc = "send"
    /\ \E outcome \in env.outcomes :
        LET f == frame[w]
            token == f.tokens[f.i]
            g == [f EXCEPT !.sends = Append(@,
                    Sent(token, outcome, platform_config(f.high_priority)))]
        IN frame' = [frame EXCEPT ![w] =
                IF outcome = "delivered"
                THEN next_token([g EXCEPT !.success_count = @ + 1])
                ELSE IF outcome = "unregistered"
                THEN [g EXCEPT !.failure_count = @ + 1, !.pc = "prune_read"]
                ELSE next_token([g EXCEPT !.failure_count = @ + 1])]
    /\ UNCHANGED <<users_at_start, firebase_initialized, db, users, appointments, clock>>

\* Variant: tokens_removed is incremented whatever the call returned.
prune_returned_counted(f, ok, failed) ==
    next_token([f EXCEPT
        !.prunes = Append(@, [token |-> f.tokens[f.i], ok |-> ok, failed |-> failed]),
        !.tokens_removed = @ + 1])

\* A finished call of remove_unregistered_token(user_id, token).
prune_returned(f, ok, failed) ==
    next_token([f EXCEPT
        !.prunes = Append(@, [token |-> f.tokens[f.i], ok |-> ok, failed |-> failed]),
        !.tokens_removed = IF ok THEN @ + 1 ELSE @])

\* remove_unregistered_token: the document read and the decision.
PruneRead(w, env) ==
    /\ frame[w].pc = "prune_read"
    /\ \E raised \in env.raises :
        LET f == frame[w]
            d == remove_decision(users[f.user_id], f.tokens[f.i])
        IN frame' = [frame EXCEPT ![w] =
                IF ~db \/ raised THEN prune_returned(f, FALSE, TRUE)
                ELSE IF d.write THEN [f EXCEPT !.pc = "prune_write", !.to_write = d.value]
                ELSE prune_returned(f, FALSE, FALSE)]
    /\ UNCHANGED <<users_at_start, firebase_initialized, db, users, appointments, clock>>

\* Variant: the update goes to every document of the users collection.
PruneWrite_every_user(w, env) ==
    /\ frame[w].pc = "prune_write"
    /\ \E raised \in env.raises :
        LET f == frame[w]
        IN /\ users' = IF raised THEN users
                       ELSE [u \in UserIds |-> f.to_write]
           /\ frame' = [frame EXCEPT ![w] = prune_returned(f, ~raised, raised)]
    /\ UNCHANGED <<users_at_start, firebase_initialized, db, appointments, clock>>

\* remove_unregistered_token: user_ref.update(...)
PruneWrite(w, env) ==
    /\ frame[w].pc = "prune_write"
    /\ \E raised \in env.raises :
        LET f == frame[w]
        IN /\ users' = IF raised THEN users
                       ELSE [users EXCEPT ![f.user_id] = f.to_write]
           /\ frame' = [frame EXCEPT ![w] = prune_returned(f, ~raised, raised)]
    /\ UNCHANGED <<users_at_start, firebase_initialized, db, appointments, clock>>

\* --------------------------------------------------- update_appointment_status

\* Variant: a completed appointment is final (409).
check_appointment_final(appointment_data, doctor_id) ==
    IF ~appointment_data.exists THEN 404
    ELSE IF ~truthy(appointment_data.patientId) THEN 500
    ELSE IF truthy(doctor_id) /\ doctor_id # appointment_data.doctorId THEN 403
    ELSE IF appointment_data.status = "completed" THEN 409
    ELSE 200

\* Variant: the doctor id of the payload is not compared.
check_appointment_no_auth(appointment_data, doctor_id) ==
    IF ~appointment_data.exists THEN 404
    ELSE IF ~truthy(appointment_data.patientId) THEN 500
    ELSE 200

\* The detail of the HTTPException raised by the generic except clause.
update_failed_detail(e) == "Failed to update appointment status: " \o e

\* The checks on the appointment snapshot, in the order of the code: the
\* status code of the HTTPException raised, 200 when none is.
check_appointment(appointment_data, doctor_id) ==
    IF ~appointment_data.exists THEN 404
    ELSE IF ~truthy(appointment_data.patientId) THEN 500
    ELSE IF truthy(doctor_id) /\ doctor_id # appointment_data.doctorId THEN 403
    ELSE 200

check_detail(code) ==
    IF code = 404 THEN "Appointment not found."
    ELSE IF code = 500 THEN "Appointment data incomplete."
    ELSE IF code = 403 THEN "Not authorized to update this appointment."
    ELSE ""

\* PUT /update-appointment-status: the initialisation check,
\* appointment_ref.get() and the checks on the snapshot.
update_appointment_status(w, env) ==
    /\ Free(w)
    /\ clock < MaxClock
    /\ \E payload \in env.payloads, raised \in env.raises, e \in env.errors :
        LET appointment_data == appointments[payload.appointment_id]
            code == check_appointment(appointment_data, payload.doctor_id)
            f == [IdleFrame EXCEPT !.op = "update_appointment_status",
                                   !.appointment_id = payload.appointment_id,
                                   !.new_status = payload.new_status,
                                   !.doctor_id = payload.doctor_id,
                                   !.cancellation_reason = payload.cancellation_reason,
                                   !.before = appointment_data]
            fail(c, detail) ==
                [f EXCEPT !.pc = "done", !.result = Response(c, detail, "", NoFanout)]
        IN frame' = [frame EXCEPT ![w] =
                IF ~firebase_initialized \/ ~db
                    THEN fail(503, "Backend services not fully initialized.")
                ELSE IF raised
                    THEN [fail(500, update_failed_detail(e)) EXCEPT !.error = e]
                ELSE IF code # 200 THEN fail(code, check_detail(code))
                ELSE [f EXCEPT !.pc = "appt_write", !.user_id = appointment_data.patientId,
                               !.user_type = "patient", !.high_priority = TRUE]]
    /\ UNCHANGED <<users_at_start, firebase_initialized, db, users, appointments, clock>>

\* Variant: the status and the timestamp are written by two update calls.
ApptWrite_twice(w, env) ==
    /\ frame[w].pc = "appt_write"
    /\ \E raised \in env.raises, e \in env.errors :
        LET f == frame[w]
        IN IF raised
           THEN /\ frame' = [frame EXCEPT ![w] =
                        [f EXCEPT !.pc = "done", !.error = e,
                                  !.result = Response(500, update_failed_detail(e), "", NoFanout)]]
                /\ UNCHANGED <<appointments, clock>>
           ELSE /\ clock' = clock + 1
                /\ appointments' = [appointments EXCEPT ![f.appointment_id] =
                        apply_update(@, f.new_status, f.cancellation_reason, clock + 1)]
                /\ frame' = [frame EXCEPT ![w] =
                        [f EXCEPT !.pc = "resolve", !.committed = TRUE, !.writes = @ + 2]]
    /\ UNCHANGED <<users_at_start, firebase_initialized, db, users>>

\* data_payload_patient: the data of the messages an update sends; the
\* title and the body name the same status.
data_payload_patient(f) ==
    [type |-> "appointment_update", appointmentId |-> f.appointment_id,
     newStatus |-> f.new_status]

\* Variant: the exception of the write is swallowed and the patient is
\* notified all the same.
ApptWrite_notify_anyway(w, env) ==
    /\ frame[w].pc = "appt_write"
    /\ \E raised \in env.raises, e \in env.errors :
        LET f == frame[w]
        IN IF raised
           THEN /\ frame' = [frame EXCEPT ![w] = [f EXCEPT !.pc = "resolve", !.error = e]]
                /\ UNCHANGED <<appointments, clock>>
           ELSE /\ clock' = clock + 1
                /\ appointments' = [appointments EXCEPT ![f.appointment_id] =
                        apply_update(@, f.new_status, f.cancellation_reason, clock + 1)]
                /\ frame' = [frame EXCEPT ![w] =
                        [f EXCEPT !.pc = "resolve", !.committed = TRUE, !.writes = @ + 1]]
    /\ UNCHANGED <<users_at_start, firebase_initialized, db, users>>

\* Variant: the first of two writes (status) is applied before the second
\* (timestamp) raises.
ApptWrite_partial(w, env) ==
    /\ frame[w].pc = "appt_write"
    /\ \E raised \in env.raises, e \in env.errors :
        LET f == frame[w]
        IN IF raised
           THEN /\ frame' = [frame EXCEPT ![w] =
                        [f EXCEPT !.pc = "done", !.error = e,
                                  !.result = Response(500, update_failed_detail(e), "", NoFanout)]]
                /\ appointments' = [appointments EXCEPT ![f.appointment_id].status = f.new_status]
                /\ UNCHANGED clock
           ELSE /\ clock' = clock + 1
                /\ appointments' = [appointments EXCEPT ![f.appointment_id] =
                        apply_update(@, f.new_status, f.cancellation_reason, clock + 1)]
                /\ frame' = [frame EXCEPT ![w] =
                        [f EXCEPT !.pc = "resolve", !.committed = TRUE, !.writes = @ + 1]]
    /\ UNCHANGED <<users_at_start, firebase_initialized, db, users>>

\* appointment_ref.update(update_data)
ApptWrite(w, env) ==
    /\ frame[w].pc = "appt_write"
    /\ \E raised \in env.raises, e \in env.errors :
        LET f == frame[w]
        IN IF raised
           THEN /\ frame' = [frame EXCEPT ![w] =
                        [f EXCEPT !.pc = "done", !.error = e,
                                  !.result = Response(500, update_failed_detail(e), "", NoFanout)]]
                /\ UNCHANGED <<appointments, clock>>
           ELSE /\ clock' = clock + 1
                /\ appointments' = [appointments EXCEPT ![f.appointment_id] =
                        apply_update(@, f.new_status, f.cancellation_reason, clock + 1)]
                /\ frame' = [frame EXCEPT ![w] =
                        [f EXCEPT !.pc = "resolve", !.committed = TRUE, !.writes = @ + 1]]
    /\ UNCHANGED <<users_at_start, firebase_initialized, db, users>>

\* The fan-out to the patient: token lookup after the status write.
Resolve(w, env) ==
    /\ frame[w].pc = "resolve"
    /\ \E raised \in env.raises :
        frame' = [frame EXCEPT ![w] = resolve(frame[w], raised)]
    /\ UNCHANGED <<users_at_start, firebase_initialized, db, users, appointments, clock>>

\* The response has been sent; the worker is free again.
Return(w) ==
    /\ frame[w].pc = "done"
    /\ frame' = [frame EXCEPT ![w] = IdleFrame]
    /\ UNCHANGED <<users_at_start, firebase_initialized, db, users, appointments, clock>>

Step(w, env) ==
    \/ read_root(w)
    \/ notify_doctor_appointment(w, env)
    \/ send_fcm_notification_direct(w, env)
    \/ update_appointment_status(w, env)
    \/ ApptWrite(w, env)
    \/ Resolve(w, env)
    \/ Send(w, env)
    \/ PruneRead(w, env)
    \/ PruneWrite(w, env)
    \/ Return(w)

\* One worker: requests are served one after the other. Every stored
\* token field up to MaxLen entries.
Next == Step(1, FanoutEnv)

Spec == Init /\ [][Next]_vars

\* One worker, every kind of request, on a few token fields.
InitWorkflow == InitWith(WorkflowFields)

NextWorkflow == Step(1, Env)

SpecWorkflow == InitWorkflow /\ [][NextWorkflow]_vars

\* Two workers on the same store: requests overlap.
InitOverlap == InitWith(OverlapFields)

NextOverlap == \E w \in Workers : Step(w, OverlapEnv)

SpecOverlap == InitOverlap /\ [][NextOverlap]_vars

\* ================================================================ properties
\* Vocabulary of the properties, stated on the stored data and on the
\* history of a call, not on the code's own intermediate results.

\* The request on worker w has its response.
Returned(w) == frame[w].pc = "done"
\* The request on worker w ran a fan-out that returned a result.
FannedOut(w) == Returned(w) /\ frame[w].resolved /\ frame[w].result.code = 200
IsUpdate(w) == frame[w].op = "update_appointment_status"
FanoutOf(w) == frame[w].result.notification_result

\* A well-formed target: a non-empty string.
WellFormed(e) == e # "" /\ e # NonStr

\* The targets a stored record resolves to.
RECURSIVE WellFormedOf(_)
WellFormedOf(l) ==
    IF l = <<>> THEN <<>>
    ELSE IF WellFormed(Head(l)) THEN <<Head(l)>> \o WellFormedOf(Tail(l))
    ELSE WellFormedOf(Tail(l))

TargetsOf(doc) ==
    IF doc.kind = "list" THEN WellFormedOf(doc.l)
    ELSE IF doc.kind = "str" /\ doc.s # "" THEN <<doc.s>>
    ELSE <<>>

Holds(seq, x) == \E k \in 1..Len(seq) : seq[k] = x
Occurrences(seq, x) == Cardinality({k \in 1..Len(seq) : seq[k] = x})

\* Sends of a call by outcome.
SendsWith(f, outs) == {k \in 1..Len(f.sends) : f.sends[k].outcome \in outs}
DeliveredCount(f) == Cardinality(SendsWith(f, {"delivered"}))
FailedCount(f) == Len(f.sends) - DeliveredCount(f)
InvalidCount(f) == Cardinality(SendsWith(f, {"unregistered"}))
SentTokens(f) == [k \in 1..Len(f.sends) |-> f.sends[k].token]

\* C1: a recipient whose record resolves to no target (no field, empty
\* list, only ill-formed entries, no record) gets status no_target and the
\* provider is not called.
C1_NoTargetNoSend ==
    \A w \in Workers :
        Returned(w) /\ frame[w].resolved /\ TargetsOf(frame[w].seen) = <<>> =>
            /\ frame[w].result.code = 200
            /\ FanoutOf(w).status = "no_target"
            /\ frame[w].sends = <<>>

C1_Witness ==
    \E w \in Workers :
        /\ FannedOut(w)
        /\ frame[w].seen.kind = "list"
        /\ Len(frame[w].seen.l) = 2
        /\ Holds(frame[w].seen.l, NonStr)
        /\ TargetsOf(frame[w].seen) = <<>>
        /\ FanoutOf(w).status = "no_target"

\* The status the specification derives from the two counts.
DerivedStatus(delivered, failed) ==
    IF failed = 0 /\ delivered > 0 THEN "success"
    ELSE IF delivered = 0 /\ failed > 0 THEN "failure"
    ELSE IF delivered > 0 /\ failed > 0 THEN "partial_success"
    ELSE "undefined"

\* C2: over at least one target the status is the function of the numbers
\* of delivered and of failed sends: success, failure or partial_success.
C2_StatusFromCounts ==
    \A w \in Workers :
        FannedOut(w) /\ frame[w].tokens # <<>> =>
            FanoutOf(w).status =
                DerivedStatus(DeliveredCount(frame[w]), FailedCount(frame[w]))

C2_Witness ==
    \E w \in Workers :
        /\ FannedOut(w)
        /\ DeliveredCount(frame[w]) = 1
        /\ FailedCount(frame[w]) = 1
        /\ FanoutOf(w).tokens_removed = 1
        /\ FanoutOf(w).status = "partial_success"

\* C3: once the status write succeeded, a notification that fails on every
\* target leaves the new status persisted, and the call answers success
\* with the notification status failure.
C3_CommitSurvivesFailure ==
    \A w \in Workers :
        /\ Returned(w) /\ IsUpdate(w) /\ frame[w].committed
        /\ frame[w].sends # <<>> /\ DeliveredCount(frame[w]) = 0
        => /\ frame[w].result.code = 200
           /\ frame[w].result.status = "success"
           /\ FanoutOf(w).status = "failure"
           /\ appointments[frame[w].appointment_id].status = frame[w].new_status
           /\ frame[w].writes = 1

C3_Witness ==
    \E w \in Workers :
        /\ Returned(w) /\ IsUpdate(w) /\ frame[w].committed
        /\ Len(frame[w].sends) = 2 /\ DeliveredCount(frame[w]) = 0
        /\ frame[w].before.status = "pending"
        /\ appointments["a1"].status = "confirmed"
        /\ FanoutOf(w).status = "failure"

\* The acting id of the payload differs from the record's doctor.
ActorMismatch(f) ==
    f.doctor_id # None /\ f.doctor_id # "" /\ f.doctor_id # f.before.doctorId
\* The record names no patient.
PatientMissing(f) == f.before.patientId = None \/ f.before.patientId = ""

\* C4: a request that fails the authorization or the completeness check
\* leaves the appointment record as it was and sends nothing.
C4_RejectedNoWrite ==
    \A w \in Workers :
        /\ Returned(w) /\ IsUpdate(w) /\ frame[w].before.exists
        /\ ActorMismatch(frame[w]) \/ PatientMissing(frame[w])
        => /\ frame[w].result.code \in {403, 500, 503}
           /\ appointments[frame[w].appointment_id] = frame[w].before
           /\ frame[w].sends = <<>>
           /\ ~frame[w].resolved

C4_Witness ==
    \E w \in Workers :
        /\ Returned(w) /\ IsUpdate(w)
        /\ frame[w].appointment_id = "a1"
        /\ ActorMismatch(frame[w])
        /\ frame[w].result.code = 403
        /\ appointments["a1"].status = "completed"
        /\ frame[w].before.status = "completed"
        /\ frame[w].new_status = "pending"

\* Prune calls of a call, in order, and the sends they answer.
PrunedTokens(f) == [k \in 1..Len(f.prunes) |-> f.prunes[k].token]
RECURSIVE InvalidTokens(_)
InvalidTokens(sends) ==
    IF sends = <<>> THEN <<>>
    ELSE IF Head(sends).outcome = "unregistered"
         THEN <<Head(sends).token>> \o InvalidTokens(Tail(sends))
         ELSE InvalidTokens(Tail(sends))

\* One prune call for each TargetInvalid send, for its target, in order.
OnePrunePerInvalid(f) == PrunedTokens(f) = InvalidTokens(f.sends)

\* C5 as claimed: every TargetInvalid send is followed by exactly one prune
\* call for its target, and once the fan-out has returned the target is
\* not among the recipient's resolved targets.
C5_PrunedThenAbsent ==
    \A w \in Workers :
        FannedOut(w) =>
            /\ OnePrunePerInvalid(frame[w])
            /\ \A k \in SendsWith(frame[w], {"unregistered"}) :
                ~Holds(TargetsOf(users[frame[w].user_id]), frame[w].sends[k].token)

\* C5 as amended: every TargetInvalid send is followed by exactly one prune
\* call for its target; the target is not among the recipient's resolved
\* targets after the fan-out when that call returned true and the stored
\* record held the target once (requests served one after the other).
C5_PrunedThenAbsentIfRemoved ==
    \A w \in Workers :
        FannedOut(w) =>
            /\ OnePrunePerInvalid(frame[w])
            /\ \A k \in 1..Len(frame[w].prunes) :
                /\ frame[w].prunes[k].ok
                /\ Occurrences(TargetsOf(frame[w].seen), frame[w].prunes[k].token) = 1
                => ~Holds(TargetsOf(users[frame[w].user_id]), frame[w].prunes[k].token)
            /\ \A k \in 1..Len(frame[w].prunes) :
                frame[w].prunes[k].failed => ~frame[w].prunes[k].ok

C5_Witness ==
    \E w \in Workers :
        /\ FannedOut(w)
        /\ frame[w].seen = ListField(<<"t1", NonStr>>)
        /\ InvalidCount(frame[w]) = 1
        /\ frame[w].prunes = <<[token |-> "t1", ok |-> TRUE, failed |-> FALSE]>>
        /\ users[frame[w].user_id] = ListField(<<NonStr>>)

NoDuplicates(seq) == \A j, k \in 1..Len(seq) : seq[j] = seq[k] => j = k

\* The provider never delivered to a target it reported invalid to either call.
InvalidNeverDelivered(f, g) ==
    \A j \in SendsWith(f, {"unregistered"}) :
        /\ \A k \in SendsWith(f, {"delivered"}) : f.sends[k].token # f.sends[j].token
        /\ \A k \in SendsWith(g, {"delivered"}) : g.sends[k].token # f.sends[j].token

\* C6 as claimed: after two fan-outs for the same recipient that resolved
\* the same duplicate-free list have both returned, no target that either
\* of them pruned is in the stored list.
C6_PrunedStaysAbsent ==
    \A v, w \in Workers :
        /\ v # w /\ FannedOut(v) /\ FannedOut(w)
        /\ frame[v].user_id = frame[w].user_id
        /\ frame[v].seen = frame[w].seen
        /\ frame[v].seen.kind = "list" /\ NoDuplicates(frame[v].seen.l)
        /\ InvalidNeverDelivered(frame[v], frame[w])
        /\ InvalidNeverDelivered(frame[w], frame[v])
        => \A k \in 1..Len(frame[v].prunes) :
                frame[v].prunes[k].ok =>
                    ~Holds(TargetsOf(users[frame[v].user_id]), frame[v].prunes[k].token)

\* No target was both delivered to and reported invalid in the call.
ConsistentOutcomes(f) ==
    \A j, k \in 1..Len(f.sends) :
        f.sends[j].token = f.sends[k].token =>
            (f.sends[j].outcome = "delivered") = (f.sends[k].outcome = "delivered")

\* C7: with n targets that deliver and m the provider reports invalid, and
\* the store answering, the result is a normal one with the counts
\* n, m, n + m, m and the m targets are gone from the stored record.
C7_DeliverAndPrune ==
    \A w \in Workers :
        LET f == frame[w]
            n == DeliveredCount(f)
            m == InvalidCount(f)
        IN /\ Returned(w) /\ f.resolved /\ f.sends # <<>>
           /\ n + m = Len(f.sends)
           /\ \A k \in 1..Len(f.prunes) : ~f.prunes[k].failed
           /\ ConsistentOutcomes(f)
           => /\ f.result.code = 200
              /\ FanoutOf(w) =
                    FanoutResult(DerivedStatus(n, m), n, m, n + m, m)
              /\ n + m = Len(TargetsOf(f.seen))
              /\ \A k \in SendsWith(f, {"unregistered"}) :
                    ~Holds(TargetsOf(users[f.user_id]), f.sends[k].token)

C7_Witness ==
    \E w \in Workers :
        /\ FannedOut(w)
        /\ frame[w].seen = ListField(<<"t1", "t2">>)
        /\ SentTokens(frame[w]) = <<"t1", "t2">>
        /\ frame[w].sends[1].outcome = "delivered"
        /\ frame[w].sends[2].outcome = "unregistered"
        /\ FanoutOf(w) = FanoutResult("partial_success", 1, 1, 2, 1)
        /\ users[frame[w].user_id] = ListField(<<"t1">>)

\* C8: a transition whose counterpart has no target is committed and
\* answered with success, the notification status being no_target.
C8_NoTargetStillCommitted ==
    \A w \in Workers :
        /\ Returned(w) /\ IsUpdate(w) /\ frame[w].committed
        /\ frame[w].resolved /\ TargetsOf(frame[w].seen) = <<>>
        => /\ frame[w].result.code = 200
           /\ frame[w].result.status = "success"
           /\ FanoutOf(w).status = "no_target"
           /\ appointments[frame[w].appointment_id].status = frame[w].new_status

C8_Witness ==
    \E w \in Workers :
        /\ Returned(w) /\ IsUpdate(w) /\ frame[w].committed
        /\ frame[w].seen = MissingField
        /\ frame[w].before.status = "pending"
        /\ appointments["a1"].status = "confirmed"
        /\ frame[w].result.status = "success"
        /\ FanoutOf(w).status = "no_target"

\* C9: the provider is called exactly once for each resolved target, in
\* order, whatever the other sends answered.
C9_EveryTargetOnce ==
    \A w \in Workers :
        /\ frame[w].resolved /\ frame[w].pc = "send"
            => Len(frame[w].sends) = frame[w].i - 1
        /\ Returned(w) /\ frame[w].resolved
            => /\ SentTokens(frame[w]) = TargetsOf(frame[w].seen)
               /\ frame[w].result.code = 200

C9_Witness ==
    \E w \in Workers :
        /\ FannedOut(w)
        /\ Len(frame[w].sends) = 2
        /\ frame[w].sends[1].outcome = "invalid_argument"
        /\ frame[w].sends[2].outcome = "delivered"

\* C10: a store failure inside a prune does not stop the fan-out nor reach
\* the caller: all targets are attempted, the result is a normal one, the
\* target counts as failed and not as removed.
C10_PruneFailureIgnored ==
    \A w \in Workers :
        LET f == frame[w]
        IN Returned(w) /\ f.resolved /\ (\E k \in 1..Len(f.prunes) : f.prunes[k].failed)
           => /\ f.result.code = 200
              /\ SentTokens(f) = TargetsOf(f.seen)
              /\ FanoutOf(w).failure_count = FailedCount(f)
              /\ FanoutOf(w).tokens_targeted = Len(f.sends)
              /\ FanoutOf(w).tokens_removed =
                    Cardinality({k \in 1..Len(f.prunes) : f.prunes[k].ok})
              /\ \A k \in 1..Len(f.prunes) : f.prunes[k].failed => ~f.prunes[k].ok
              /\ FanoutOf(w).tokens_removed < InvalidCount(f)

C10_Witness ==
    \E w \in Workers :
        /\ FannedOut(w)
        /\ Len(frame[w].sends) = 2
        /\ frame[w].sends[1].outcome = "unregistered"
        /\ frame[w].prunes[1].failed
        /\ frame[w].sends[2].outcome = "delivered"
        /\ FanoutOf(w) = FanoutResult("partial_success", 1, 1, 2, 0)

\* The request was answered by a check on the record, not by the
\* initialisation check (503) nor by a store call that raised.
StoreAnswered(f) ==
    /\ f.result.code # 503
    /\ f.error = ""

\* C11 as claimed: for an existing record, a supplied acting id that differs
\* from the record's doctor is answered with Unauthorized (403) and nothing
\* is written, also when the record has no patient id.
C11_MismatchIsUnauthorized ==
    \A w \in Workers :
        /\ Returned(w) /\ IsUpdate(w) /\ frame[w].before.exists
        /\ ActorMismatch(frame[w]) /\ StoreAnswered(frame[w])
        => /\ frame[w].result.code = 403
           /\ appointments[frame[w].appointment_id] = frame[w].before



\* C12: a call that ends in an error response has written nothing: the
\* appointment record is as before the call (a missing record is still
\* missing) and nothing was sent; once the write succeeded the response
\* is a success.
C12_ErrorMeansNoMutation ==
    \A w \in Workers :
        Returned(w) /\ IsUpdate(w) =>
            /\ frame[w].result.code # 200 =>
                /\ appointments[frame[w].appointment_id] = frame[w].before
                /\ frame[w].sends = <<>>
            /\ frame[w].result.code \in {200, 403, 404, 500, 503}
            /\ frame[w].committed => frame[w].result.code = 200
            /\ appointments[frame[w].appointment_id] # frame[w].before
                => frame[w].result.code = 200

C12_Witness ==
    \E w \in Workers :
        /\ Returned(w) /\ IsUpdate(w)
        /\ frame[w].appointment_id = "a1"
        /\ frame[w].user_type = "patient"
        /\ frame[w].result.code = 500
        /\ frame[w].error # ""
        /\ appointments["a1"] = frame[w].before


\* The stored record holds target t: as an entry of the list, or as the
\* single string.
StoredHolds(doc, t) ==
    \/ doc.kind = "list" /\ Holds(doc.l, t)
    \/ doc.kind = "str" /\ doc.s = t

\* The prune call of worker w reads the record in this step.
PruneReads(w) == frame[w].pc = "prune_read" /\ frame'[w] # frame[w]

\* C13: a prune of a target that is absent from the stored record (an
\* earlier prune removed it) returns false, raises nothing and writes
\* nothing: the record is left as it is.
C13_PruneAbsentIsNoop ==
    [][\A w \in Workers :
        /\ PruneReads(w)
        /\ ~StoredHolds(users[frame[w].user_id], frame[w].tokens[frame[w].i])
        => /\ users' = users
           /\ frame'[w].pc # "prune_write"
           /\ frame'[w].tokens_removed = frame[w].tokens_removed
           /\ frame'[w].prunes = Append(frame[w].prunes,
                  [token |-> frame[w].tokens[frame[w].i], ok |-> FALSE, failed |-> FALSE])]_vars

C13_Witness ==
    \E w, v \in Workers : \E t \in Tokens :
        /\ w # v
        /\ frame[w].user_id = frame[v].user_id
        /\ Holds(frame[v].prunes, [token |-> t, ok |-> TRUE, failed |-> FALSE])
        /\ Holds(frame[w].prunes, [token |-> t, ok |-> FALSE, failed |-> FALSE])
        /\ ~StoredHolds(users[frame[w].user_id], t)


\* The prune call of worker w writes the record in this step and returns
\* true.
PruneWrites(w) ==
    /\ frame[w].pc = "prune_write"
    /\ frame'[w].tokens_removed = frame[w].tokens_removed + 1

\* Sequence l without its entry at position k.
Without(l, k) == SubSeq(l, 1, k - 1) \o SubSeq(l, k + 1, Len(l))

\* C14: a prune of target t that returns true takes exactly one entry equal
\* to t out of the recipient's stored list: the other entries stay, in their
\* order, the list is shorter by one, and no other record changes.
C14_PruneRemovesExactlyOne ==
    [][\A w \in Workers :
        PruneWrites(w) /\ users[frame[w].user_id].kind = "list" =>
            LET u == frame[w].user_id
                t == frame[w].tokens[frame[w].i]
                l == users[u].l
            IN /\ users'[u].kind = "list"
               /\ \E k \in 1..Len(l) : l[k] = t /\ users'[u].l = Without(l, k)
               /\ Len(users'[u].l) = Len(l) - 1
               /\ Occurrences(users'[u].l, t) = Occurrences(l, t) - 1
               /\ \A o \in UserIds \ {u} : users'[o] = users[o]]_vars

C14_Witness ==
    \E w \in Workers : \E t \in Tokens :
        /\ FannedOut(w)
        /\ frame[w].seen.kind = "list"
        /\ Len(frame[w].seen.l) = 2
        /\ frame[w].seen.l[1] # t
        /\ frame[w].prunes = <<[token |-> t, ok |-> TRUE, failed |-> FALSE]>>
        /\ users[frame[w].user_id] = ListField(<<frame[w].seen.l[1]>>)


\* A stored record whose list has no duplicate entry and no empty string.
Clean(doc) == doc.kind = "list" => NoDuplicates(doc.l) /\ ~Holds(doc.l, "")

\* C15 as claimed: after every write of a recipient's record the stored list
\* has no duplicate and no empty-string entry, whatever it held before.
C15_WriteLeavesClean ==
    [][\A u \in UserIds : users'[u] # users[u] => Clean(users'[u])]_vars

\* C15, amended: a write of a recipient's record brings in no duplicate and
\* no empty-string entry: a list that had none before the write has none
\* after it.
C15_WriteKeepsClean ==
    [][\A u \in UserIds :
        users'[u] # users[u] /\ Clean(users[u]) => Clean(users'[u])]_vars

C15_Witness ==
    \E w \in Workers :
        /\ FannedOut(w)
        /\ frame[w].seen.kind = "list"
        /\ Len(frame[w].seen.l) = 2
        /\ Clean(frame[w].seen)
        /\ Len(frame[w].prunes) = 2
        /\ \A k \in 1..2 : frame[w].prunes[k].ok
        /\ users[frame[w].user_id] = ListField(<<>>)


\* The token lookup of the fan-out of worker w happens in this step.
LooksUp(w) == ~frame[w].resolved /\ frame'[w].resolved

\* C16: a successful prune of a recipient's last target deletes a
\* single-string field and writes a one-element list back empty; from then
\* on the record resolves to no target, and every later fan-out for the
\* recipient looks up no target and returns no_target without a send.
C16_LastPruneThenNoTarget ==
    [][\A w \in Workers :
        /\ PruneWrites(w) /\ Len(TargetsOf(users[frame[w].user_id])) = 1 =>
            LET u == frame[w].user_id
            IN /\ get_user_fcm_tokens(users'[u], FALSE) = <<>>
               /\ users[u].kind = "str" => users'[u] = MissingField
               /\ users[u].kind = "list" /\ Len(users[u].l) = 1
                    => users'[u] = ListField(<<>>)
        /\ \A u \in UserIds :
            TargetsOf(users[u]) = <<>> => TargetsOf(users'[u]) = <<>>
        /\ LooksUp(w) /\ TargetsOf(users[frame'[w].user_id]) = <<>> =>
            /\ frame'[w].tokens = <<>>
            /\ frame'[w].sends = <<>>
            /\ frame'[w].pc = "done"
            /\ frame'[w].result.notification_result = NoTargetResult]_vars

C16_Witness ==
    \E w \in Workers :
        /\ FannedOut(w)
        /\ frame[w].seen = ListField(<<"t2">>)
        /\ frame[w].prunes = <<[token |-> "t2", ok |-> TRUE, failed |-> FALSE]>>
        /\ users[frame[w].user_id] = ListField(<<>>)
        /\ get_user_fcm_tokens(users[frame[w].user_id], FALSE) = <<>>


\* C17: a fan-out for a recipient id without a record does not fail: it
\* returns status no_target and the provider is never called.
C17_NoRecordIsNoTarget ==
    \A w \in Workers :
        /\ Returned(w) /\ frame[w].resolved
        /\ users[frame[w].user_id].kind = "nodoc"
        => /\ frame[w].result.code = 200
           /\ FanoutOf(w) = NoTargetResult
           /\ FanoutOf(w).status = "no_target"
           /\ frame[w].sends = <<>>
           /\ frame[w].prunes = <<>>

C17_Witness ==
    \E w \in Workers :
        /\ FannedOut(w)
        /\ frame[w].op = "notify_doctor_appointment"
        /\ users[frame[w].user_id] = NoDoc
        /\ frame[w].seen = NoDoc
        /\ frame[w].tokens = <<>>
        /\ FanoutOf(w).status = "no_target"


\* C18: no resolved target is left out of the aggregate. A result over at
\* least one target has success_count + failure_count = tokens_targeted,
\* which is the number of targets resolved and of sends made, one per
\* target in order; and no response exists while a target has no outcome.
C18_NoTargetDropped ==
    \A w \in Workers :
        /\ FannedOut(w) /\ FanoutOf(w).status # "no_target" =>
            /\ FanoutOf(w).success_count + FanoutOf(w).failure_count
                    = FanoutOf(w).tokens_targeted
            /\ FanoutOf(w).tokens_targeted = Len(frame[w].tokens)
            /\ FanoutOf(w).tokens_targeted = Len(TargetsOf(frame[w].seen))
            /\ FanoutOf(w).success_count = DeliveredCount(frame[w])
            /\ FanoutOf(w).failure_count = FailedCount(frame[w])
            /\ SentTokens(frame[w]) = frame[w].tokens
        /\ frame[w].resolved /\ Len(frame[w].sends) < Len(frame[w].tokens) =>
            /\ ~Returned(w)
            /\ frame[w].result = NoResponse

C18_Witness ==
    \E w \in Workers :
        /\ FannedOut(w)
        /\ FanoutOf(w).tokens_targeted = 2
        /\ FanoutOf(w).success_count = 1
        /\ FanoutOf(w).failure_count = 1
        /\ frame[w].sends[2].outcome = "exception"


\* C19: entries of the stored list that are not well-formed (empty strings,
\* values that are not strings) are filtered out by the lookup: they are not
\* among the resolved targets, the provider is never called with one, and
\* tokens_targeted counts the well-formed entries, not the stored list.
C19_IllFormedFiltered ==
    \A w \in Workers :
        frame[w].resolved /\ frame[w].seen.kind = "list" =>
            /\ frame[w].tokens = WellFormedOf(frame[w].seen.l)
            /\ \A k \in 1..Len(frame[w].sends) :
                /\ WellFormed(frame[w].sends[k].token)
                /\ frame[w].sends[k].token = frame[w].tokens[k]
            /\ FannedOut(w) /\ frame[w].tokens # <<>> =>
                FanoutOf(w).tokens_targeted = Len(WellFormedOf(frame[w].seen.l))

C19_Witness ==
    \E w \in Workers :
        /\ FannedOut(w)
        /\ frame[w].seen.kind = "list"
        /\ Len(frame[w].seen.l) = 2
        /\ \E k \in 1..2 : ~WellFormed(frame[w].seen.l[k])
        /\ FanoutOf(w).tokens_targeted = 1
        /\ Len(frame[w].sends) = 1


\* Worker w serves a direct send in this step.
SendsDirect(w) ==
    frame[w].pc = "idle" /\ frame'[w].op = "send_fcm_notification_direct"

\* The response code of the direct send for each answer of the provider.
DirectCode(outcome) ==
    CASE outcome = "delivered" -> 200
      [] outcome = "unregistered" -> 404
      [] outcome = "invalid_argument" -> 400
      [] OTHER -> 500

\* C20: the direct send calls the provider once, for the token of the
\* request, and answers success with the provider's message id when
\* delivered, 404 for an unregistered target, 400 for an invalid argument
\* and 500 for any other failure; when the provider was never initialised
\* it answers 503 without a call. No stored record changes.
C20_DirectSendMapsOutcomes ==
    [][\A w \in Workers : SendsDirect(w) =>
        LET g == frame'[w]
        IN /\ users' = users
           /\ appointments' = appointments
           /\ g.pc = "done"
           /\ g.prunes = <<>>
           /\ IF ~firebase_initialized
              THEN g.result.code = 503 /\ g.sends = <<>>
              ELSE /\ Len(g.sends) = 1
                   /\ g.sends[1].token = g.tokens[1]
                   /\ g.result.code = DirectCode(g.sends[1].outcome)
                   /\ g.sends[1].outcome = "delivered" =>
                        /\ g.result.status = "success"
                        /\ g.message_id = g.response
                        /\ g.message_id \in MessageIds
                   /\ g.sends[1].outcome # "delivered" =>
                        g.result.status # "success" /\ g.message_id = ""]_vars

C20_Witness ==
    \E w \in Workers :
        /\ Returned(w)
        /\ frame[w].op = "send_fcm_notification_direct"
        /\ frame[w].sends = <<Sent("t1", "unregistered", NoConfig)>>
        /\ frame[w].result.code = 404
        /\ StoredHolds(users["p1"], "t1")


\* The request of worker w ended in an internal error: a store or provider
\* call raised and the response code is 500.
InternalError(w) ==
    Returned(w) /\ frame[w].error # "" /\ frame[w].result.code = 500

\* C21 as claimed: the response to an internal failure does not depend on
\* the text of the exception: the same request failing with any other
\* exception text gets the same response.
C21_ResponseHidesError ==
    \A w \in Workers : InternalError(w) =>
        \A e \in ErrorTexts :
            /\ IsUpdate(w) =>
                frame[w].result = Response(500, update_failed_detail(e), "", NoFanout)
            /\ frame[w].op = "send_fcm_notification_direct" =>
                frame[w].result.detail =
                    direct_response(frame[w].sends[1].outcome, frame[w].response, e).detail


\* C22 as claimed: when the provider or the store is not initialised the
\* health check answers with a service-unavailable code (503), which is
\* neither the code of a healthy answer (200) nor the internal-error code
\* (500).
C22_HealthReportsUnavailable ==
    \A w \in Workers :
        /\ Returned(w) /\ frame[w].op = "read_root"
        /\ ~firebase_initialized \/ ~db
        => /\ frame[w].result.code = 503
           /\ frame[w].result.code \notin {200, 500}


\* The send carries the platform-priority hints.
Hinted(sent) == sent.android = "high" /\ sent.apns = "10"
\* The send carries no platform configuration: provider defaults.
Unhinted(sent) == sent.android = None /\ sent.apns = None

\* C23: a message carries the platform-priority hints if and only if the
\* fan-out was asked for high priority: every message of the appointment
\* workflow carries both, every message of the plain notification of a
\* doctor carries none.
C23_HintsIffHighPriority ==
    \A w \in Workers : \A k \in 1..Len(frame[w].sends) :
        /\ Hinted(frame[w].sends[k]) \/ Unhinted(frame[w].sends[k])
        /\ frame[w].resolved =>
            (Hinted(frame[w].sends[k]) <=> frame[w].high_priority)
        /\ IsUpdate(w) => Hinted(frame[w].sends[k])
        /\ frame[w].op = "notify_doctor_appointment" => Unhinted(frame[w].sends[k])

C23_Witness ==
    \E w \in Workers :
        /\ FannedOut(w)
        /\ frame[w].op = "notify_doctor_appointment"
        /\ Len(frame[w].sends) = 2
        /\ \A k \in 1..2 : Unhinted(frame[w].sends[k])
        /\ ~frame[w].high_priority


\* The update call of worker w passed the three checks on the record
\* (existence, completeness, authorization) and no store call raised.
PassedChecks(w) ==
    /\ Returned(w) /\ IsUpdate(w)
    /\ frame[w].result.code # 503
    /\ frame[w].error = ""
    /\ frame[w].before.exists
    /\ ~PatientMissing(frame[w])
    /\ ~ActorMismatch(frame[w])

\* C24: whether an update commits does not depend on the record's current
\* status: a call that passes the existence, authorization and
\* completeness checks commits whatever the current and the new status
\* are, and the persisted status is the new one.
C24_NoTransitionTable ==
    \A w \in Workers : PassedChecks(w) =>
        /\ frame[w].result.code = 200
        /\ frame[w].committed
        /\ appointments[frame[w].appointment_id].status = frame[w].new_status

C24_Witness ==
    \E w \in Workers :
        /\ PassedChecks(w)
        /\ frame[w].before.status = "completed"
        /\ frame[w].new_status = "pending"
        /\ appointments[frame[w].appointment_id].status = "pending"


\* C25: in an update the patient's tokens are looked up and the provider is
\* called only after the status write has succeeded: while the write has
\* not succeeded, and when it failed, there is no lookup, no send and no
\* prune.
C25_NotifyOnlyAfterWrite ==
    \A w \in Workers : IsUpdate(w) =>
        /\ ~frame[w].committed =>
            /\ ~frame[w].resolved
            /\ frame[w].sends = <<>>
            /\ frame[w].prunes = <<>>
        /\ frame[w].resolved \/ frame[w].sends # <<>> =>
            /\ frame[w].writes = 1
            /\ appointments[frame[w].appointment_id] # frame[w].before
                \/ frame[w].before.status = frame[w].new_status

C25_Witness ==
    \E w \in Workers :
        /\ IsUpdate(w)
        /\ frame[w].pc = "send"
        /\ frame[w].committed
        /\ Len(frame[w].sends) = 1
        /\ appointments[frame[w].appointment_id].status = frame[w].new_status
        /\ frame[w].before.status # frame[w].new_status


\* C26: one update call writes the appointment record at most once, exactly
\* once when it answers success and not at all when it answers an error; a
\* notification that fails causes no second write and does not undo the
\* first.
C26_WritesAtMostOnce ==
    \A w \in Workers : IsUpdate(w) =>
        /\ frame[w].writes \in {0, 1}
        /\ frame[w].committed <=> frame[w].writes = 1
        /\ Returned(w) =>
            (frame[w].writes = 1 <=> frame[w].result.code = 200)
        /\ Returned(w) /\ frame[w].result.code = 200 =>
            /\ frame[w].result.status = "success"
            /\ appointments[frame[w].appointment_id].statusLastUpdatedAt = clock
            /\ appointments[frame[w].appointment_id].statusLastUpdatedAt
                    > frame[w].before.statusLastUpdatedAt

C26_Witness ==
    \E w \in Workers :
        /\ Returned(w) /\ IsUpdate(w)
        /\ frame[w].result.code = 200
        /\ FanoutOf(w).status = "failure"
        /\ FanoutOf(w).failure_count = 2
        /\ frame[w].writes = 1


\* A prune call of the fan-out of worker w is under way.
Pruning(w) == frame[w].pc \in {"prune_read", "prune_write"}

\* C27 as claimed: a prune is called for a target only once that target's
\* own send has returned unregistered, never after another outcome; and a
\* prune under way does not delay the sends to the other targets: the send
\* to the next target can be made while it runs.
C27_PruneAfterOwnSendUnblocking ==
    \A w \in Workers :
        /\ Pruning(w) =>
            /\ frame[w].sends[Len(frame[w].sends)].outcome = "unregistered"
            /\ frame[w].sends[Len(frame[w].sends)].token = frame[w].tokens[frame[w].i]
            /\ Append(PrunedTokens(frame[w]), frame[w].tokens[frame[w].i])
                    = InvalidTokens(frame[w].sends)
        /\ ~Pruning(w) /\ frame[w].resolved => OnePrunePerInvalid(frame[w])
        /\ Pruning(w) /\ frame[w].i < Len(frame[w].tokens) =>
            ENABLED Send(w, Env)


\* The entries a stored record holds, as a sequence.
StoredEntries(doc) ==
    IF doc.kind = "list" THEN doc.l
    ELSE IF doc.kind = "str" THEN <<doc.s>>
    ELSE <<>>

\* Every entry occurs in record doc at most as often as in record d.
SubMultiset(doc, d) ==
    \A e \in Entries :
        Occurrences(StoredEntries(doc), e) <= Occurrences(StoredEntries(d), e)

\* C28: no operation adds a target: whatever requests are served, and
\* however two of them interleave, the targets stored for a recipient are
\* at all times a sub-multiset of the targets the recipient started with.
C28_NoTargetAdded ==
    \A u \in UserIds : SubMultiset(users[u], users_at_start[u])

C28_Witness ==
    \E w, v \in Workers :
        /\ w # v /\ Returned(w) /\ Returned(v)
        /\ frame[w].seen = ListField(<<"t1", "t2">>)
        /\ frame[v].seen = ListField(<<"t1", "t2">>)
        /\ frame[w].prunes = <<[token |-> "t1", ok |-> TRUE, failed |-> FALSE]>>
        /\ frame[v].prunes = <<[token |-> "t2", ok |-> TRUE, failed |-> FALSE]>>
        /\ users["p1"] = ListField(<<"t1">>)


\* Worker w takes this step.
Acts(w) == frame'[w] # frame[w]

LookupFailed(w) ==
    /\ frame[w].resolved
    /\ frame[w].seen = NoDoc
    /\ users[frame[w].user_id].kind # "nodoc"

\* C30: a store failure during the token lookup is not an error of the
\* request: the lookup yields no target, the fan-out returns no_target
\* without a send, and an update, whose write has succeeded by then, still
\* answers success with the new status persisted.
C30_LookupFailureIsNoTarget ==
    \A w \in Workers : LookupFailed(w) =>
        /\ frame[w].tokens = <<>>
        /\ frame[w].sends = <<>>
        /\ Returned(w)
        /\ frame[w].result.code = 200
        /\ FanoutOf(w) = NoTargetResult
        /\ IsUpdate(w) =>
            /\ frame[w].committed
            /\ frame[w].result.status = "success"
            /\ appointments[frame[w].appointment_id].status = frame[w].new_status

C30_Witness ==
    \E w \in Workers :
        /\ LookupFailed(w) /\ IsUpdate(w) /\ Returned(w)
        /\ Len(TargetsOf(users[frame[w].user_id])) = 2
        /\ frame[w].result.status = "success"
        /\ FanoutOf(w).status = "no_target"


\* The update call of worker w commits in this step.
Commits(w) == ~frame[w].committed /\ frame'[w].committed

\* A reason was supplied: a string that is not empty.
ReasonSupplied(f) == f.cancellation_reason # None /\ f.cancellation_reason # ""

\* C31: a committed transition sets the status and the server timestamp in
\* one write, and with them the reason if and only if a non-empty reason
\* was supplied, whatever the new status; without one the stored reason
\* stays as it was. Nothing else of the record changes.
C31_StatusTimestampReasonTogether ==
    [][\A w \in Workers : Commits(w) =>
        LET f == frame[w]
            old == appointments[f.appointment_id]
            new == appointments'[f.appointment_id]
        IN /\ frame'[w].writes = f.writes + 1
           /\ new.status = f.new_status
           /\ new.statusLastUpdatedAt = clock'
           /\ new.statusLastUpdatedAt > old.statusLastUpdatedAt
           /\ ReasonSupplied(f) => new.cancellationReason = f.cancellation_reason
           /\ ~ReasonSupplied(f) => new.cancellationReason = old.cancellationReason
           /\ new.exists = old.exists
           /\ new.patientId = old.patientId
           /\ new.doctorId = old.doctorId
           /\ \A a \in DOMAIN appointments \ {f.appointment_id} :
                appointments'[a] = appointments[a]]_vars

C31_Witness ==
    \E w \in Workers :
        /\ Returned(w) /\ IsUpdate(w) /\ frame[w].committed
        /\ frame[w].cancellation_reason = ""
        /\ frame[w].before.cancellationReason = "busy"
        /\ frame[w].new_status = "confirmed"
        /\ appointments[frame[w].appointment_id].cancellationReason = "busy"
        /\ appointments[frame[w].appointment_id].status = "confirmed"
        /\ frame[w].before.status # "confirmed"


\* C32 as claimed: when an update hands a message to the provider, the
\* status the message names is the status persisted for the appointment at
\* that moment, also when two updates of the same appointment overlap.
C32_NotifiedStatusIsPersisted ==
    \A w \in Workers :
        IsUpdate(w) /\ frame[w].pc = "send" =>
            /\ data_payload_patient(frame[w]).appointmentId = frame[w].appointment_id
            /\ data_payload_patient(frame[w]).newStatus
                    = appointments[frame[w].appointment_id].status

====
